---------------------------- MODULE Spec2Model ----------------------------
(***************************************************************************)
(* Webhook receiver (src/index.js, first program of the file, lines 1-492): *)
(* the ingestion handler app.all('/:id'), the Socket.IO join handler, the   *)
(* endpoint create/delete handlers and sendWebhookNotification, as a state  *)
(* machine over the three MongoDB collections, the Socket.IO rooms and the  *)
(* events each socket has been sent.                                        *)
(*                                                                         *)
(* Every handler is an async function on one event loop: the code between  *)
(* two awaits runs atomically, and each awaited database operation takes   *)
(* effect at the server at some moment between its call and the resumption *)
(* of the handler.  One action = the server-side effect of the awaited     *)
(* operation, or the synchronous code that runs when the await resumes.    *)
(***************************************************************************)
EXTENDS Integers, Sequences, FiniteSets

\* ------------------------------------------------------------------ bounds
\* Number of ingestion requests (handler activations) of one behaviour.
MaxIngests == 2
\* Requests already persisted on e1 when the behaviour of SpecTail starts.
PrefillLen == 100

\* ------------------------------------------------------- program constants
\* .limit(100) of the catch-up query.
SnapshotLimit == 100

EndpointIds == {"e1", "e2"}
Sockets == {"s1"}
Ingests == 1..MaxIngests
\* Largest value of the millisecond clock read by new Date(): as many values
\* as there are requests, so that all can differ and any two can coincide.
MaxTime == MaxIngests - 1
Deletes == {"d1"}
\* Activations of the handlers of /api/notifications/enable, /disable, /email.
Prefs == {"w1", "w2"}

\* Authenticated principals: the payload of a verified Google token carries a
\* subject identifier (sub) and an email.
Principals == {"alice", "bob"}
Sub(p) == IF p = "alice" THEN "sub-alice" ELSE "sub-bob"
Email(p) == IF p = "alice" THEN "alice@example.com" ELSE "bob@example.com"

NoEndpoint == "-"
NoOwner == "-"

VARIABLES
  endpointsCollection,  \* [EndpointIds -> [present, createdBy]]: the 'endpoints' collection
  issued,               \* endpoint ids uuidv4() has already returned
  requestsCollection,   \* the 'requests' collection, in the order the server applied the inserts
  userSettings,         \* the 'userSettings' collection, in natural order
  transporter,          \* TRUE iff the nodemailer transporter is configured
  now,                  \* the wall clock in milliseconds, as read by new Date()
  nextId,               \* the driver's ObjectId counter
  ingest,               \* [Ingests -> activation record of app.all('/:id')]
  notify,               \* [Ingests -> activation record of sendWebhookNotification]
  del,                  \* [Deletes -> activation record of app.delete('/endpoints/:id')]
  join,                 \* [Sockets -> activation record of socket.on('join')]
  rooms,                \* [EndpointIds -> set of sockets]: the Socket.IO adapter's rooms
  received,             \* [Sockets -> sequence of events emitted to the socket]
  mailbox,              \* sequence of transporter.sendMail invocations
  pref                  \* [Prefs -> activation record of a /api/notifications handler]

vars == <<endpointsCollection, issued, requestsCollection, userSettings, transporter,
          now, nextId, ingest, notify, del, join, rooms, received, mailbox, pref>>

\* ----------------------------------------------------------------- helpers
Min(a, b) == IF a < b THEN a ELSE b

Range(s) == {s[i] : i \in 1..Len(s)}

\* The documents of the 'requests' collection that match { endpointId }.
RequestsOf(e) == {r \in Range(requestsCollection) : r.endpointId = e}

\* Mutant of EndpointFound: the null check of the lookup is dropped.
EndpointFoundAlways(e) == TRUE

\* endpointsCollection.findOne({ _id: id }) is non-null.
EndpointFound(e) == endpointsCollection[e].present

IdleIngest == [pc |-> "idle", id |-> NoEndpoint, createdBy |-> NoOwner,
               _id |-> 0, timestamp |-> 0, status |-> 0]
\* The googleUserId argument of sendWebhookNotification when it is null.
Null == "null"
IdleNotify == [pc |-> "none", creatorEmail |-> NoOwner, googleUserId |-> Null,
               to |-> NoOwner, error |-> FALSE]

\* sendWebhookNotification(creatorEmail, ..., googleUserId) up to its first
\* await (lines 344-356): with a googleUserId the first lookup issued is the
\* one by userId = googleUserId, without one it is the one by notificationEmail.
Called(creatorEmail, googleUserId) ==
  [IdleNotify EXCEPT !.pc = IF googleUserId # Null THEN "byGoogleUserId"
                            ELSE "byNotificationEmail",
                     !.creatorEmail = creatorEmail,
                     !.googleUserId = googleUserId]
\* user is req.user of the delete request, set by authenticateGoogleToken.
IdleDelete == [pc |-> "idle", endpointId |-> NoEndpoint, user |-> "-"]
\* emittedAt is a history field: the value of the ObjectId counter when the
\* snapshot was emitted (every request with a smaller _id had started by then).
IdleJoin == [pc |-> "idle", endpointId |-> NoEndpoint, recentRequests |-> <<>>,
             emittedAt |-> 0]
\* before, alone and doneAt are history fields: the settings table when the
\* handler was called, whether no other preference handler of the same
\* principal has been active since, and the value of the ObjectId counter when
\* the handler answered success (every request with a smaller _id had started
\* by then).
IdlePref == [pc |-> "idle", op |-> "-", user |-> "-", email |-> "-", status |-> 0,
             before |-> <<>>, alone |-> TRUE, doneAt |-> 0]

\* The payload of a 'new_request' event and of one element of 'init_requests'.
Formatted(r) == [_id |-> r._id, timestamp |-> r.timestamp]

Event(type, msg, reqs) == [type |-> type, msg |-> msg, reqs |-> reqs]


\* -------------------------------------------------------------------- Init
\* The database outlives the process: the behaviour starts with endpoint e1
\* already registered by alice (app.post('/new') has run once), no request
\* stored, no socket connected to a room and no handler active.
InitCommon ==
  /\ endpointsCollection =
       [e \in EndpointIds |->
          IF e = "e1" THEN [present |-> TRUE, createdBy |-> Email("alice")]
          ELSE [present |-> FALSE, createdBy |-> NoOwner]]
  /\ issued = {"e1"}
  /\ now = 0
  /\ ingest = [r \in Ingests |-> IdleIngest]
  /\ notify = [r \in Ingests |-> IdleNotify]
  /\ del = [d \in Deletes |-> IdleDelete]
  /\ join = [s \in Sockets |-> IdleJoin]
  /\ rooms = [e \in EndpointIds |-> {}]
  /\ received = [s \in Sockets |-> <<>>]
  /\ mailbox = <<>>
  /\ pref = [w \in Prefs |-> IdlePref]

Init ==
  /\ InitCommon
  /\ requestsCollection = <<>>
  /\ nextId = 1
  /\ userSettings = <<>>
  /\ transporter = FALSE

\* ------------------------------------------------- app.post('/new') (84-103)
\* uuidv4() returns an identifier it has not returned before; insertOne adds
\* the endpoint with createdBy = req.user.email.
CreateEndpoint(e, p) ==
  /\ e \notin issued
  /\ issued' = issued \cup {e}
  /\ endpointsCollection' =
       [endpointsCollection EXCEPT ![e] = [present |-> TRUE, createdBy |-> Email(p)]]
  /\ UNCHANGED <<pref, requestsCollection, userSettings, transporter, now, nextId, ingest,
                 notify, del, join, rooms, received, mailbox>>

\* --------------------------------------- app.delete('/endpoints/:id') (128-138)
\* The request of authenticated principal p passes authenticateGoogleToken;
\* the handler awaits deleteOne({ _id: endpointId }) and never reads req.user.
\* The id comes from the answer of POST /new or from a webhook URL: uuidv4 ids
\* cannot be guessed before they are issued.
DeleteEndpoint(d, e, p) ==
  /\ del[d].pc = "idle"
  /\ e \in issued
  /\ del' = [del EXCEPT ![d] = [pc |-> "purge", endpointId |-> e, user |-> p]]
  /\ endpointsCollection' =
       [endpointsCollection EXCEPT ![e] = [present |-> FALSE, createdBy |-> NoOwner]]
  /\ UNCHANGED <<pref, issued, requestsCollection, userSettings, transporter, now, nextId,
                 ingest, notify, join, rooms, received, mailbox>>

\* Mutant of DeletePurge: the handler answers without deleteMany.
DeleteWithoutPurge(d) ==
  /\ del[d].pc = "purge"
  /\ del' = [del EXCEPT ![d].pc = "done"]
  /\ UNCHANGED <<pref, endpointsCollection, issued, requestsCollection, userSettings,
                 transporter, now, nextId, ingest, notify, join, rooms, received, mailbox>>

\* requestsCollection.deleteMany({ endpointId }), then res.json({ success: true }).
DeletePurge(d) ==
  /\ del[d].pc = "purge"
  /\ requestsCollection' =
       SelectSeq(requestsCollection, LAMBDA r : r.endpointId # del[d].endpointId)
  /\ del' = [del EXCEPT ![d].pc = "done"]
  /\ UNCHANGED <<pref, endpointsCollection, issued, userSettings, transporter, now, nextId,
                 ingest, notify, join, rooms, received, mailbox>>

\* ------------------------------------------------- app.all('/:id') (141-193)
\* Mutant of Broadcast: io.emit instead of io.to(id).emit.
BroadcastToAll(e, payload) ==
  [s \in Sockets |-> Append(received[s], Event("new_request", "", <<payload>>))]

\* io.to(id).emit('new_request', ...): the event is queued, in emission order,
\* for every socket that is in room id at this moment.
Broadcast(e, payload) ==
  [s \in Sockets |->
     IF s \in rooms[e]
     THEN Append(received[s], Event("new_request", "", <<payload>>))
     ELSE received[s]]

\* Lines 144-154: the findOne resolves; a null result answers 404; otherwise
\* data is built with timestamp = new Date() (a clock read, never before an
\* earlier read) and insertOne is called, which assigns the ObjectId _id from
\* the driver's counter before the insert is sent.
IngestCheck(r, e) ==
  /\ ingest[r].pc = "idle"
  /\ IF r = 1 THEN TRUE ELSE ingest[r - 1].pc # "idle"
  /\ UNCHANGED <<pref, endpointsCollection, issued, requestsCollection, userSettings,
                 transporter, notify, del, join, rooms, received, mailbox>>
  /\ IF ~EndpointFound(e)
     THEN /\ ingest' = [ingest EXCEPT ![r] =
                          [IdleIngest EXCEPT !.pc = "done", !.id = e, !.status = 404]]
          /\ UNCHANGED <<now, nextId>>
     ELSE \E t \in now..Min(now + 1, MaxTime) :
            /\ now' = t
            /\ nextId' = nextId + 1
            /\ ingest' = [ingest EXCEPT ![r] =
                            [pc |-> "inserting", id |-> e,
                             createdBy |-> endpointsCollection[e].createdBy,
                             _id |-> nextId, timestamp |-> t, status |-> 0]]

\* The findOne of line 144 rejects: the catch of lines 189-192 answers 500.
IngestFindFails(r, e) ==
  /\ ingest[r].pc = "idle"
  /\ IF r = 1 THEN TRUE ELSE ingest[r - 1].pc # "idle"
  /\ ingest' = [ingest EXCEPT ![r] =
                  [IdleIngest EXCEPT !.pc = "done", !.id = e, !.status = 500]]
  /\ UNCHANGED <<pref, endpointsCollection, issued, requestsCollection, userSettings,
                 transporter, now, nextId, notify, del, join, rooms, received, mailbox>>

\* The server applies the insert of line 154.
IngestAppend(r) ==
  /\ ingest[r].pc = "inserting"
  /\ requestsCollection' =
       Append(requestsCollection,
              [_id |-> ingest[r]._id, endpointId |-> ingest[r].id,
               timestamp |-> ingest[r].timestamp])
  /\ ingest' = [ingest EXCEPT ![r].pc = "inserted"]
  /\ UNCHANGED <<pref, endpointsCollection, issued, userSettings, transporter, now, nextId,
                 notify, del, join, rooms, received, mailbox>>

\* Mutant of IngestInsertFails: the catch logs the rejection and answers 200.
IngestInsertFailsIgnored(r) ==
  /\ ingest[r].pc = "inserting"
  /\ ingest' = [ingest EXCEPT ![r].pc = "done", ![r].status = 200]
  /\ UNCHANGED <<pref, endpointsCollection, issued, requestsCollection, userSettings,
                 transporter, now, nextId, notify, del, join, rooms, received, mailbox>>

\* The insertOne of line 154 rejects: the catch of lines 189-192 answers 500.
IngestInsertFails(r) ==
  /\ ingest[r].pc = "inserting"
  /\ ingest' = [ingest EXCEPT ![r].pc = "done", ![r].status = 500]
  /\ UNCHANGED <<pref, endpointsCollection, issued, requestsCollection, userSettings,
                 transporter, now, nextId, notify, del, join, rooms, received, mailbox>>

\* Lines 166-180: the handler calls sendWebhookNotification with the
\* endpoint's createdBy and googleUserId = null, and does not await it.
StartNotification(r) ==
  IF ingest[r].createdBy # NoOwner
  THEN [notify EXCEPT ![r] = Called(ingest[r].createdBy, Null)]
  ELSE notify

\* Mutant of IngestResume: the handler awaits sendWebhookNotification before
\* it answers.
IngestResumeAwaitsNotification(r, browserGet) ==
  /\ ingest[r].pc = "inserted"
  /\ received' = Broadcast(ingest[r].id, Formatted(ingest[r]))
  /\ notify' = StartNotification(r)
  /\ ingest' = [ingest EXCEPT ![r].pc = "notifying"]
  /\ UNCHANGED <<pref, endpointsCollection, issued, requestsCollection, userSettings,
                 transporter, now, nextId, del, join, rooms, mailbox>>

\* Lines 155-188, run when the insertOne resolves: broadcast to the room, start
\* the notification without awaiting it, answer 302 to a browser GET and 200
\* to anything else.
IngestResume(r, browserGet) ==
  /\ ingest[r].pc = "inserted"
  /\ received' = Broadcast(ingest[r].id, Formatted(ingest[r]))
  /\ notify' = StartNotification(r)
  /\ ingest' = [ingest EXCEPT ![r].pc = "done",
                              ![r].status = IF browserGet THEN 302 ELSE 200]
  /\ UNCHANGED <<pref, endpointsCollection, issued, requestsCollection, userSettings,
                 transporter, now, nextId, del, join, rooms, mailbox>>

\* io.to(id).emit of line 156 throws (it runs inside the try of line 143): the
\* statements after it, the notification of lines 166-180 included, are
\* skipped and the catch of lines 189-192 answers 500.
IngestBroadcastFails(r) ==
  /\ ingest[r].pc = "inserted"
  /\ ingest' = [ingest EXCEPT ![r].pc = "done", ![r].status = 500]
  /\ UNCHANGED <<pref, endpointsCollection, issued, requestsCollection, userSettings,
                 transporter, now, nextId, notify, del, join, rooms, received, mailbox>>

\* ----------------------------------------------- socket.on('join') (200-225)
\* .sort({ timestamp: -1 }): every order of the documents S in which the
\* timestamps never increase.  Documents with equal timestamps come back in
\* an order the server chooses: c picks that order for every group of
\* documents that share a timestamp.
SortedByTimestampDesc(S) ==
  LET newer == [r \in S |-> Cardinality({q \in S : q.timestamp > r.timestamp})]
      Tied(r) == {q \in S : q.timestamp = r.timestamp}
      ties == {g \in {Tied(r) : r \in S} : Cardinality(g) > 1}
      Orders(g) == {f \in [1..Cardinality(g) -> g] :
                      \A i, j \in 1..Cardinality(g) : i # j => f[i] # f[j]}
      choices == {c \in [ties -> UNION {Orders(g) : g \in ties}] :
                    \A g \in ties : c[g] \in Orders(g)}
  IN {[i \in 1..Cardinality(S) |->
         LET r == CHOOSE x \in S : newer[x] < i /\ i <= newer[x] + Cardinality(Tied(x))
         IN IF Tied(r) \in ties THEN c[Tied(r)][i - newer[r]] ELSE r] : c \in choices}

\* .limit(100)
Limit(q) == SubSeq(q, 1, Min(Len(q), SnapshotLimit))

\* recentRequests.map(r => ({ _id, ..., timestamp })): same order, one payload
\* per document.
FormattedRequests(q) == [i \in 1..Len(q) |-> Formatted(q[i])]

\* Mutant of EnterRoom: the handler forgets socket.join.
EnterRoomSkipped(s, e) == rooms

\* socket.join(endpointId) (line 207).
EnterRoom(s, e) == [rooms EXCEPT ![e] = @ \cup {s}]

\* Lines 202-212: the findOne resolves; a null result emits 'error' and ends
\* the handler; otherwise the socket enters the room and the catch-up query is
\* issued.  One socket issues one join.
Join(s, e) ==
  /\ join[s].pc = "idle"
  /\ IF ~EndpointFound(e)
     THEN /\ received' = [received EXCEPT
                            ![s] = Append(@, Event("error", "Endpoint not found", <<>>))]
          /\ join' = [join EXCEPT ![s] = [IdleJoin EXCEPT !.pc = "failed", !.endpointId = e]]
          /\ UNCHANGED rooms
     ELSE /\ rooms' = EnterRoom(s, e)
          /\ join' = [join EXCEPT ![s] = [IdleJoin EXCEPT !.pc = "reading", !.endpointId = e]]
          /\ UNCHANGED received
  /\ UNCHANGED <<pref, endpointsCollection, issued, requestsCollection, userSettings,
                 transporter, now, nextId, ingest, notify, del, mailbox>>

\* The server evaluates find({ endpointId }).sort({ timestamp: -1 }).limit(100).
JoinRead(s) ==
  /\ join[s].pc = "reading"
  /\ \E q \in SortedByTimestampDesc(RequestsOf(join[s].endpointId)) :
       join' = [join EXCEPT ![s].pc = "emitting", ![s].recentRequests = Limit(q)]
  /\ UNCHANGED <<pref, endpointsCollection, issued, requestsCollection, userSettings,
                 transporter, now, nextId, ingest, notify, del, rooms, received, mailbox>>

\* Lines 213-221, run when toArray() resolves: format and emit the snapshot.
JoinEmit(s) ==
  /\ join[s].pc = "emitting"
  /\ received' = [received EXCEPT ![s] =
                    Append(@, Event("init_requests", "",
                                    FormattedRequests(join[s].recentRequests)))]
  /\ join' = [join EXCEPT ![s].pc = "joined", ![s].emittedAt = nextId]
  /\ UNCHANGED <<pref, endpointsCollection, issued, requestsCollection, userSettings,
                 transporter, now, nextId, ingest, notify, del, rooms, mailbox>>

\* ------------------------------------------ sendWebhookNotification (344-469)
Undefined == "undefined"
On == "true"
Off == "false"

\* A document of 'userSettings'; a field the writer never set is Undefined.
Setting(userId, emailNotifications, notificationEmail) ==
  [userId |-> userId, emailNotifications |-> emailNotifications,
   notificationEmail |-> notificationEmail]

\* findOne's null.
NoSetting == Setting(Undefined, Undefined, Undefined)

RECURSIVE FirstMatch(_, _, _)
\* findOne({ field: value }): the first matching document in natural order.
FirstMatch(coll, field, value) ==
  IF coll = <<>> THEN NoSetting
  ELSE IF Head(coll)[field] = value THEN Head(coll)
       ELSE FirstMatch(Tail(coll), field, value)

\* Mutant of Resolved: the mail goes to the creator's email, whatever the
\* setting's notificationEmail.
ResolvedToCreator(n, row) ==
  IF row.emailNotifications # On
  THEN [n EXCEPT !.pc = "done"]
  ELSE [n EXCEPT !.pc = "endpoint", !.to = n.creatorEmail]

\* Mutant of Resolved: the emailNotifications flag is not read.
ResolvedIgnoringFlag(n, row) ==
  [n EXCEPT !.pc = "endpoint",
            !.to = IF row.notificationEmail # Undefined
                   THEN row.notificationEmail ELSE n.creatorEmail]

\* Lines 364-373 for the resolved userSettings: without emailNotifications the
\* function returns; otherwise notificationEmail = userSettings.notificationEmail
\* || creatorEmail and the endpoint is fetched.
Resolved(n, row) ==
  IF row.emailNotifications # On
  THEN [n EXCEPT !.pc = "done"]
  ELSE [n EXCEPT !.pc = "endpoint",
                 !.to = IF row.notificationEmail # Undefined
                        THEN row.notificationEmail ELSE n.creatorEmail]

\* Mutant of NotifyByGoogleUserId: a row that is not enabled is passed over
\* and the next lookup is consulted.
NotifyByGoogleUserIdFirstEnabled(r) ==
  /\ notify[r].pc = "byGoogleUserId"
  /\ LET row == FirstMatch(userSettings, "userId", notify[r].googleUserId)
     IN notify' = [notify EXCEPT ![r] =
                     IF row.emailNotifications # On THEN [@ EXCEPT !.pc = "byNotificationEmail"]
                     ELSE Resolved(@, row)]
  /\ UNCHANGED <<pref, endpointsCollection, issued, requestsCollection, userSettings,
                 transporter, now, nextId, ingest, del, join, rooms, received, mailbox>>

\* Lines 349-354: findOne({ userId: googleUserId }) resolves; null leads to
\* the lookup by notificationEmail.
NotifyByGoogleUserId(r) ==
  /\ notify[r].pc = "byGoogleUserId"
  /\ LET row == FirstMatch(userSettings, "userId", notify[r].googleUserId)
     IN notify' = [notify EXCEPT ![r] =
                     IF row = NoSetting THEN [@ EXCEPT !.pc = "byNotificationEmail"]
                     ELSE Resolved(@, row)]
  /\ UNCHANGED <<pref, endpointsCollection, issued, requestsCollection, userSettings,
                 transporter, now, nextId, ingest, del, join, rooms, received, mailbox>>

\* Lines 356-359: findOne({ notificationEmail: creatorEmail }) resolves; null
\* leads to the lookup by userId.
NotifyByNotificationEmail(r) ==
  /\ notify[r].pc = "byNotificationEmail"
  /\ LET row == FirstMatch(userSettings, "notificationEmail", notify[r].creatorEmail)
     IN notify' = [notify EXCEPT ![r] =
                     IF row = NoSetting THEN [@ EXCEPT !.pc = "byUserId"]
                     ELSE Resolved(@, row)]
  /\ UNCHANGED <<pref, endpointsCollection, issued, requestsCollection, userSettings,
                 transporter, now, nextId, ingest, del, join, rooms, received, mailbox>>

\* Lines 361-368: findOne({ userId: creatorEmail }) resolves.
NotifyByUserId(r) ==
  /\ notify[r].pc = "byUserId"
  /\ notify' = [notify EXCEPT ![r] =
                  Resolved(@, FirstMatch(userSettings, "userId", notify[r].creatorEmail))]
  /\ UNCHANGED <<pref, endpointsCollection, issued, requestsCollection, userSettings,
                 transporter, now, nextId, ingest, del, join, rooms, received, mailbox>>

\* Lines 373-462: the endpoint lookup resolves; without a transporter the
\* function logs and returns, with one it calls transporter.sendMail.
NotifyEndpoint(r) ==
  /\ notify[r].pc = "endpoint"
  /\ IF transporter
     THEN /\ mailbox' = Append(mailbox, [to |-> notify[r].to, _id |-> ingest[r]._id])
          /\ notify' = [notify EXCEPT ![r].pc = "sending"]
     ELSE /\ notify' = [notify EXCEPT ![r].pc = "done"]
          /\ UNCHANGED mailbox
  /\ UNCHANGED <<pref, endpointsCollection, issued, requestsCollection, userSettings,
                 transporter, now, nextId, ingest, del, join, rooms, received>>

\* Line 463: sendMail resolves.
NotifySent(r) ==
  /\ notify[r].pc = "sending"
  /\ notify' = [notify EXCEPT ![r].pc = "done"]
  /\ UNCHANGED <<pref, endpointsCollection, issued, requestsCollection, userSettings,
                 transporter, now, nextId, ingest, del, join, rooms, received, mailbox>>

\* Mutant of CatchNotificationError: the catch throws the error again, into
\* the handler that awaits the notification.
RethrowNotificationError(r) ==
  /\ notify' = [notify EXCEPT ![r].pc = "done", ![r].error = TRUE]
  /\ ingest' = [ingest EXCEPT ![r].status = 500]

\* Mutant of CatchNotificationError: a rejected sendMail is tried again.
RetryNotification(r) ==
  /\ notify' = [notify EXCEPT ![r] = IF @.pc = "sending" THEN [@ EXCEPT !.pc = "endpoint"]
                                      ELSE [@ EXCEPT !.pc = "done", !.error = TRUE]]
  /\ UNCHANGED ingest

\* The catch of lines 465-468: the error is logged and not thrown again, so
\* nothing outside the notification changes.
CatchNotificationError(r) ==
  /\ notify' = [notify EXCEPT ![r].pc = "done", ![r].error = TRUE]
  /\ UNCHANGED ingest

\* An awaited lookup or sendMail rejects.
NotifyFails(r) ==
  /\ notify[r].pc \in {"byGoogleUserId", "byNotificationEmail", "byUserId", "endpoint",
                       "sending"}
  /\ CatchNotificationError(r)
  /\ UNCHANGED <<pref, endpointsCollection, issued, requestsCollection, userSettings,
                 transporter, now, nextId, del, join, rooms, received, mailbox>>

\* ------------------ /api/notifications/enable, /disable, /email (237-337)
\* req.body.email: absent (or empty), or an address.
NoEmail == ""
BodyEmails == {NoEmail, "team@example.com", "alice@work.com"}

Active(a) == a.pc \notin {"idle", "done"}

\* The handler up to its first await.  enable takes email || req.user.email
\* (line 240), disable reads no email, /email answers 400 to an absent email
\* or one without '@' (lines 306-308) and otherwise calls deleteMany.
StartPreference(w, op, p, email) ==
  /\ pref[w].pc = "idle"
  /\ IF w = "w1" THEN TRUE ELSE pref["w1"].pc # "idle"
  /\ LET invalid == op = "setEmail" /\ email = NoEmail
         notificationEmail ==
           IF op = "disable" THEN Undefined
           ELSE IF op = "enable" /\ email = NoEmail THEN Email(p) ELSE email
         overlaps(v) == v # w /\ Active(pref[v]) /\ pref[v].user = p /\ ~invalid
     IN pref' = [v \in Prefs |->
                   IF v = w
                   THEN [pc |-> IF invalid THEN "done"
                                ELSE IF op = "setEmail" THEN "purge" ELSE "sub",
                         op |-> op, user |-> p, email |-> notificationEmail,
                         status |-> IF invalid THEN 400 ELSE 0,
                         before |-> userSettings,
                         alone |-> \A u \in Prefs : ~overlaps(u),
                         doneAt |-> 0]
                   ELSE IF overlaps(v) THEN [pref[v] EXCEPT !.alone = FALSE]
                        ELSE pref[v]]
  /\ UNCHANGED <<endpointsCollection, issued, requestsCollection, userSettings,
                 transporter, now, nextId, ingest, notify, del, join, rooms, received,
                 mailbox>>

\* The filter of the deleteMany of lines 311-314: userId is one of the
\* principal's keys and notificationEmail differs from the new email (a
\* document without notificationEmail matches $ne).
PurgeFilter(a, row) ==
  /\ row.userId \in {Sub(a.user), Email(a.user)}
  /\ row.notificationEmail # a.email

\* Mutant of PreferencePurge: /email answers success without writing.
PreferencePurgeSkipped(w) ==
  /\ pref[w].pc = "purge"
  /\ pref' = [pref EXCEPT ![w].pc = "done", ![w].status = 200]
  /\ UNCHANGED <<endpointsCollection, issued, requestsCollection, userSettings,
                 transporter, now, nextId, ingest, notify, del, join, rooms, received,
                 mailbox>>

\* The server applies the deleteMany of /email.
PreferencePurge(w) ==
  /\ pref[w].pc = "purge"
  /\ userSettings' = SelectSeq(userSettings, LAMBDA row : ~PurgeFilter(pref[w], row))
  /\ pref' = [pref EXCEPT ![w].pc = "sub"]
  /\ UNCHANGED <<endpointsCollection, issued, requestsCollection, transporter, now,
                 nextId, ingest, notify, del, join, rooms, received, mailbox>>

\* The key of the updateOne the handler is waiting for: req.user.sub first
\* (lines 243, 268, 317), req.user.email second (251, 276, 325).
UpsertKey(a) == IF a.pc \in {"sub", "subInsert"} THEN Sub(a.user) ELSE Email(a.user)

\* Mutant of AfterUpsert: the handler answers after the update under sub.
AfterFirstUpsert(a) == [a EXCEPT !.pc = "done", !.status = 200, !.doneAt = nextId]

\* The handler after an updateOne has resolved: the second updateOne (the
\* principals have an email that differs from their sub), then res.json.
AfterUpsert(a) ==
  IF a.pc \in {"sub", "subInsert"} THEN [a EXCEPT !.pc = "email"]
  ELSE [a EXCEPT !.pc = "done", !.status = 200, !.doneAt = nextId]

\* $set of the handler applied to a document.
Updated(row, a) ==
  Setting(row.userId,
          IF a.op = "enable" THEN On ELSE IF a.op = "disable" THEN Off
          ELSE row.emailNotifications,
          IF a.op = "disable" THEN row.notificationEmail ELSE a.email)

\* The document an upsert inserts: the equality of the filter and the $set.
Inserted(key, a) ==
  Setting(key,
          IF a.op = "enable" THEN On ELSE IF a.op = "disable" THEN Off ELSE Undefined,
          IF a.op = "disable" THEN Undefined ELSE a.email)

\* updateOne({ userId }, { $set }, { upsert: true }), first half: the server
\* looks for a document with the key; it updates the first one it finds, and
\* decides to insert when it finds none.
PreferenceUpsert(w) ==
  /\ pref[w].pc \in {"sub", "email"}
  /\ LET key == UpsertKey(pref[w])
         found == {i \in 1..Len(userSettings) : userSettings[i].userId = key}
     IN IF found = {}
        THEN /\ pref' = [pref EXCEPT ![w].pc = IF @ = "sub" THEN "subInsert"
                                                ELSE "emailInsert"]
             /\ UNCHANGED userSettings
        ELSE LET i == CHOOSE x \in found : \A y \in found : x <= y
             IN /\ userSettings' = [userSettings EXCEPT ![i] = Updated(@, pref[w])]
                /\ pref' = [pref EXCEPT ![w] = AfterUpsert(@)]
  /\ UNCHANGED <<endpointsCollection, issued, requestsCollection, transporter, now,
                 nextId, ingest, notify, del, join, rooms, received, mailbox>>

\* updateOne with upsert, second half: the insert.  The collection has no
\* unique index on userId, so the insert is applied whatever other upserts
\* have inserted since the lookup.
PreferenceInsert(w) ==
  /\ pref[w].pc \in {"subInsert", "emailInsert"}
  /\ userSettings' = Append(userSettings, Inserted(UpsertKey(pref[w]), pref[w]))
  /\ pref' = [pref EXCEPT ![w] = AfterUpsert(@)]
  /\ UNCHANGED <<endpointsCollection, issued, requestsCollection, transporter, now,
                 nextId, ingest, notify, del, join, rooms, received, mailbox>>

\* An awaited deleteMany or updateOne rejects: the catch answers 500.
PreferenceFails(w) ==
  /\ pref[w].pc \in {"purge", "sub", "email"}
  /\ pref' = [pref EXCEPT ![w].pc = "done", ![w].status = 500]
  /\ UNCHANGED <<endpointsCollection, issued, requestsCollection, userSettings,
                 transporter, now, nextId, ingest, notify, del, join, rooms, received,
                 mailbox>>

\* app.get('/api/notifications/status') (290-301) over the table coll: the row
\* under req.user.sub; enabled is emailNotifications || false and email is
\* notificationEmail || req.user.email.
Status(coll, p) ==
  LET settings == FirstMatch(coll, "userId", Sub(p))
  IN [enabled |-> settings.emailNotifications = On,
      email |-> IF settings.notificationEmail # Undefined
                THEN settings.notificationEmail ELSE Email(p)]

\* ------------------------------------------------------------ specifications
\* Ingestion, fan-out and endpoint lifecycle.  The requests come from
\* non-browser clients; notification tasks are started and left pending (they
\* write nothing the fan-out reads).
Next ==
  \/ \E e \in EndpointIds, p \in Principals : CreateEndpoint(e, p)
  \/ \E d \in Deletes, e \in EndpointIds, p \in Principals : DeleteEndpoint(d, e, p)
  \/ \E d \in Deletes : DeletePurge(d)
  \/ \E r \in Ingests, e \in EndpointIds : IngestCheck(r, e)
  \/ \E r \in Ingests : IngestAppend(r)
  \/ \E r \in Ingests : IngestResume(r, FALSE)
  \/ \E s \in Sockets, e \in EndpointIds : Join(s, e)
  \/ \E s \in Sockets : JoinRead(s)
  \/ \E s \in Sockets : JoinEmit(s)

Spec == Init /\ [][Next]_vars

\* The catch-up query at its limit: e1 already holds PrefillLen requests, left
\* by earlier ingests.  Their _id are 1..PrefillLen and their timestamps lie
\* before the clock's 0; the two that were persisted first were handled
\* concurrently, so their timestamps are in persist order, equal, or reversed.
Prefill(t1, t2) ==
  [i \in 1..PrefillLen |->
     [_id |-> i, endpointId |-> "e1",
      timestamp |-> IF i = 1 THEN t1 ELSE IF i = 2 THEN t2 ELSE i - PrefillLen - 3]]

InitTail ==
  /\ InitCommon
  /\ \E t \in {<<0 - PrefillLen - 2, 0 - PrefillLen - 1>>,
               <<0 - PrefillLen - 1, 0 - PrefillLen - 1>>,
               <<0 - PrefillLen - 1, 0 - PrefillLen - 2>>} :
       requestsCollection = Prefill(t[1], t[2])
  /\ nextId = PrefillLen + 1
  /\ userSettings = <<>>
  /\ transporter = FALSE

NextTail ==
  \/ \E r \in Ingests : IngestCheck(r, "e1")
  \/ \E r \in Ingests : IngestAppend(r)
  \/ \E r \in Ingests : IngestResume(r, FALSE)
  \/ \E s \in Sockets : Join(s, "e1")
  \/ \E s \in Sockets : JoinRead(s)
  \/ \E s \in Sockets : JoinEmit(s)

SpecTail == InitTail /\ [][NextTail]_vars

\* Ingestion with its notification task.  The settings table is one that the
\* preference handlers can leave behind for alice, the owner of e1: none, the
\* pair of rows written by enable (under her sub and under her email) with her
\* own or with a separate address, enabled or disabled.
SettingsOf(p, flag, address) ==
  <<Setting(Sub(p), flag, address), Setting(Email(p), flag, address)>>

InitNotify ==
  /\ InitCommon
  /\ requestsCollection = <<>>
  /\ nextId = 1
  /\ userSettings \in {<<>>} \cup
       {SettingsOf("alice", flag, address) :
          flag \in {On, Off}, address \in {Email("alice"), "alice@work.com"}}
  /\ transporter \in BOOLEAN

NextNotify ==
  \/ \E r \in Ingests : IngestCheck(r, "e1")
  \/ \E r \in Ingests : IngestFindFails(r, "e1")
  \/ \E r \in Ingests : IngestAppend(r)
  \/ \E r \in Ingests : IngestInsertFails(r)
  \/ \E r \in Ingests, browserGet \in BOOLEAN : IngestResume(r, browserGet)
  \/ \E r \in Ingests : NotifyByNotificationEmail(r)
  \/ \E r \in Ingests : NotifyByUserId(r)
  \/ \E r \in Ingests : NotifyEndpoint(r)
  \/ \E r \in Ingests : NotifySent(r)
  \/ \E r \in Ingests : NotifyFails(r)

SpecNotify == InitNotify /\ [][NextNotify]_vars

\* Ingestion on e1 with every failure of its awaited and synchronous steps,
\* and a socket joining e1.  Notification tasks are started and left pending.
NextIsolation ==
  \/ \E r \in Ingests : IngestCheck(r, "e1")
  \/ \E r \in Ingests : IngestFindFails(r, "e1")
  \/ \E r \in Ingests : IngestAppend(r)
  \/ \E r \in Ingests : IngestInsertFails(r)
  \/ \E r \in Ingests : IngestBroadcastFails(r)
  \/ \E r \in Ingests, browserGet \in BOOLEAN : IngestResume(r, browserGet)
  \/ \E s \in Sockets : Join(s, "e1")
  \/ \E s \in Sockets : JoinRead(s)
  \/ \E s \in Sockets : JoinEmit(s)

SpecIsolation == Init /\ [][NextIsolation]_vars

\* SpecNotify with the scheduling of the event loop: when the insertOne of an
\* ingest has resolved, its continuation (lines 155-188) is run.  Nothing is
\* assumed of the notification's lookups or of sendMail: they may never
\* resolve.
SpecResponse ==
  /\ InitNotify
  /\ [][NextNotify]_vars
  /\ \A r \in Ingests : WF_vars(\E browserGet \in BOOLEAN : IngestResume(r, browserGet))

\* Notification routing over the settings tables the resolution chain has to
\* tell apart, for alice, the owner of e1: a single row under her email key
\* (enabled, disabled, or without flag as /email inserts it; with her own or
\* with a separate address), the pairs of InitNotify, and a row of bob that
\* names alice's email as its address, ahead of alice's own row.
InitRoute ==
  /\ InitCommon
  /\ requestsCollection = <<>>
  /\ nextId = 1
  /\ userSettings \in
       {<<>>}
       \cup {<<Setting(Email("alice"), flag, address)>> :
               flag \in {On, Off, Undefined}, address \in {Email("alice"), "alice@work.com"}}
       \cup {SettingsOf("alice", flag, address) :
               flag \in {On, Off}, address \in {Email("alice"), "alice@work.com"}}
       \cup {<<Setting(Sub("bob"), flag, Email("alice")),
               Setting(Email("alice"), On, "alice@work.com")>> : flag \in {On, Off}}
  /\ transporter \in BOOLEAN

SpecRoute == InitRoute /\ [][NextNotify]_vars

\* sendWebhookNotification on its own, called for alice's endpoint e1 with
\* every googleUserId argument (none, alice's sub, bob's sub) over the tables
\* in which each of its three lookups can find a row or not: a row under
\* alice's sub, a row of bob that names alice's email as its address, a row
\* under alice's email, each absent, enabled or disabled.
ResolveTables ==
  {SelectSeq(<<Setting(Sub("alice"), f[1], "alice@work.com"),
               Setting(Sub("bob"), f[2], Email("alice")),
               Setting(Email("alice"), f[3], "team@example.com")>>,
             LAMBDA row : row.emailNotifications # Undefined) :
     f \in [1..3 -> {On, Off, Undefined}]}

InitResolve ==
  /\ endpointsCollection =
       [e \in EndpointIds |->
          IF e = "e1" THEN [present |-> TRUE, createdBy |-> Email("alice")]
          ELSE [present |-> FALSE, createdBy |-> NoOwner]]
  /\ issued = {"e1"}
  /\ now = 0
  /\ ingest = [r \in Ingests |-> IdleIngest]
  /\ notify \in [Ingests -> {Called(Email("alice"), g) : g \in {Null, Sub("alice"), Sub("bob")}}]
  /\ del = [d \in Deletes |-> IdleDelete]
  /\ join = [s \in Sockets |-> IdleJoin]
  /\ rooms = [e \in EndpointIds |-> {}]
  /\ received = [s \in Sockets |-> <<>>]
  /\ mailbox = <<>>
  /\ pref = [w \in Prefs |-> IdlePref]
  /\ requestsCollection = <<>>
  /\ nextId = 1
  /\ userSettings \in ResolveTables
  /\ transporter \in BOOLEAN

NextResolve ==
  \/ \E r \in Ingests : NotifyByGoogleUserId(r)
  \/ \E r \in Ingests : NotifyByNotificationEmail(r)
  \/ \E r \in Ingests : NotifyByUserId(r)
  \/ \E r \in Ingests : NotifyEndpoint(r)
  \/ \E r \in Ingests : NotifySent(r)
  \/ \E r \in Ingests : NotifyFails(r)

SpecResolve == InitResolve /\ [][NextResolve]_vars

\* alice switching her notifications on and off while requests arrive on her
\* endpoint e1, with a transporter configured.  The settings table starts
\* empty, with alice's rows (her own or her work address), or with the rows
\* bob wrote when he enabled notifications to alice's email, ahead of hers.
InitDisable ==
  /\ InitCommon
  /\ requestsCollection = <<>>
  /\ nextId = 1
  /\ userSettings \in {<<>>,
                        SettingsOf("alice", On, Email("alice")),
                        SettingsOf("alice", On, "alice@work.com"),
                        SettingsOf("bob", On, Email("alice"))
                          \o SettingsOf("alice", On, "alice@work.com")}
  /\ transporter = TRUE

NextDisable ==
  \/ \E w \in Prefs, op \in {"enable", "disable"} : StartPreference(w, op, "alice", NoEmail)
  \/ \E w \in Prefs : PreferenceUpsert(w)
  \/ \E w \in Prefs : PreferenceInsert(w)
  \/ \E r \in Ingests : IngestCheck(r, "e1")
  \/ \E r \in Ingests : IngestAppend(r)
  \/ \E r \in Ingests : IngestResume(r, FALSE)
  \/ \E r \in Ingests : NotifyByNotificationEmail(r)
  \/ \E r \in Ingests : NotifyByUserId(r)
  \/ \E r \in Ingests : NotifyEndpoint(r)
  \/ \E r \in Ingests : NotifySent(r)

SpecDisable == InitDisable /\ [][NextDisable]_vars

\* The preference handlers.  The settings table starts empty, or as alice and
\* bob left it when each enabled notifications to the same team address.
InitSettings ==
  /\ InitCommon
  /\ requestsCollection = <<>>
  /\ nextId = 1
  /\ userSettings \in {<<>>,
                        SettingsOf("alice", On, "team@example.com")
                          \o SettingsOf("bob", On, "team@example.com")}
  /\ transporter = FALSE

NextSettings ==
  \/ \E w \in Prefs, op \in {"enable", "disable", "setEmail"}, p \in Principals,
        email \in BodyEmails : StartPreference(w, op, p, email)
  \/ \E w \in Prefs : PreferencePurge(w)
  \/ \E w \in Prefs : PreferenceUpsert(w)
  \/ \E w \in Prefs : PreferenceInsert(w)
  \/ \E w \in Prefs : PreferenceFails(w)

SpecSettings == InitSettings /\ [][NextSettings]_vars

\* ------------------------------------------------------------------ claims
\* What a socket has been sent.
LiveCountIn(rcv, s, id) ==
  Cardinality({i \in 1..Len(rcv[s]) :
                 /\ rcv[s][i].type = "new_request"
                 /\ rcv[s][i].reqs[1]._id = id})

SnapshotCountIn(rcv, s, id) ==
  Cardinality({x \in {<<i, k>> : i \in 1..Len(rcv[s]), k \in 1..SnapshotLimit} :
                 /\ rcv[s][x[1]].type = "init_requests"
                 /\ x[2] <= Len(rcv[s][x[1]].reqs)
                 /\ rcv[s][x[1]].reqs[x[2]]._id = id})

LiveCount(s, id) == LiveCountIn(received, s, id)

SnapshotCount(s, id) == SnapshotCountIn(received, s, id)

Succeeded(r) == ingest[r].pc = "done" /\ ingest[r].status \in {200, 302}

Stored(r) == \E d \in Range(requestsCollection) : d._id = ingest[r]._id

\* C1: an ingest on an endpoint id the registry does not report answers 404
\* and ends there: that step appends nothing to the request store, emits no
\* event and starts no notification, and the activation never acts again.
C1_NotFoundIsRejected ==
  [][\A r \in Ingests :
       /\ (ingest[r].pc = "idle" /\ ingest'[r].pc # "idle"
           /\ ~endpointsCollection[ingest'[r].id].present)
          => /\ ingest'[r].pc = "done" /\ ingest'[r].status = 404
             /\ requestsCollection' = requestsCollection
             /\ received' = received
             /\ notify' = notify
       /\ ingest[r].status = 404 => ingest'[r] = ingest[r]]_vars

\* The first request was delivered live to a subscriber of its endpoint; the
\* endpoint was then deleted and the second request, on the same id, got 404.
C1_Witness ==
  \E s \in Sockets :
    /\ Succeeded(1) /\ LiveCount(s, ingest[1]._id) = 1
    /\ ingest[2].status = 404 /\ ingest[2].id = ingest[1].id

\* C2: a joined subscriber has been sent, in its snapshot or live, every
\* request of its endpoint whose ingest succeeded and that is still persisted,
\* as long as the endpoint holds at most 100 requests.
C2_NoSilentGap ==
  \A s \in Sockets, r \in Ingests :
    (/\ join[s].pc = "joined"
     /\ Succeeded(r) /\ ingest[r].id = join[s].endpointId
     /\ Stored(r)
     /\ Cardinality(RequestsOf(join[s].endpointId)) <= SnapshotLimit)
    => SnapshotCount(s, ingest[r]._id) + LiveCount(s, ingest[r]._id) >= 1

\* A joined subscriber got one request in its snapshot only and another one
\* live only.
C2_Witness ==
  \E s \in Sockets, r, q \in Ingests :
    /\ join[s].pc = "joined" /\ Succeeded(r) /\ Succeeded(q) /\ Stored(r) /\ Stored(q)
    /\ ingest[r].id = join[s].endpointId /\ ingest[q].id = join[s].endpointId
    /\ SnapshotCount(s, ingest[r]._id) = 1 /\ LiveCount(s, ingest[r]._id) = 0
    /\ SnapshotCount(s, ingest[q]._id) = 0 /\ LiveCount(s, ingest[q]._id) = 1

\* C3, as claimed: no request is delivered to a subscriber both inside its
\* snapshot and as a live new_request event.
C3_NoDuplicate ==
  \A s \in Sockets, r \in Ingests :
    ingest[r]._id # 0 =>
      ~(SnapshotCount(s, ingest[r]._id) >= 1 /\ LiveCount(s, ingest[r]._id) >= 1)

\* C3, amended: a request is delivered at most once inside the snapshot and
\* at most once live, and both only when its ingest overlapped the join.  No
\* live event reaches a socket before it has entered a room, and a request
\* whose ingest has completed is never broadcast again, so a request completed
\* before the join is not delivered live; the snapshot is fixed once it has
\* been read and lists no request that was not yet appended, so a request
\* appended after the read is not delivered in the snapshot.
C3_DuplicateOnlyAcrossJoin ==
  [][\A s \in Sockets, r \in Ingests :
       ingest'[r]._id # 0 =>
         /\ SnapshotCountIn(received', s, ingest'[r]._id) <= 1
         /\ LiveCountIn(received', s, ingest'[r]._id) <= 1
         /\ join'[s].pc = "idle" => LiveCountIn(received', s, ingest'[r]._id) = 0
         /\ ingest[r].pc = "done"
              => LiveCountIn(received', s, ingest[r]._id) = LiveCount(s, ingest[r]._id)
         /\ join[s].pc \in {"emitting", "joined"}
              => join'[s].recentRequests = join[s].recentRequests
         /\ (join'[s].pc \in {"emitting", "joined"} /\ ingest'[r].pc = "inserting")
              => /\ \A k \in 1..Len(join'[s].recentRequests) :
                      join'[s].recentRequests[k]._id # ingest'[r]._id
                 /\ SnapshotCountIn(received', s, ingest'[r]._id) = 0]_vars

\* A request was delivered to a joined subscriber in its snapshot and live.
C3_Witness ==
  \E s \in Sockets, r \in Ingests :
    /\ join[s].pc = "joined" /\ Succeeded(r)
    /\ SnapshotCount(s, ingest[r]._id) = 1 /\ LiveCount(s, ingest[r]._id) = 1

\* The new_request events sent to s, as the sequence of their _id.
LiveIds(s) ==
  LET live == SelectSeq(received[s], LAMBDA ev : ev.type = "new_request")
  IN [i \in 1..Len(live) |-> live[i].reqs[1]._id]

\* C4: once the snapshot has been emitted, the requests that are ingested
\* from then on (their handling starts after the emission) and succeed are each
\* delivered live exactly once, in the order in which they were ingested.
C4_FurtherRequestsInOrder ==
  \A s \in Sockets :
    join[s].pc = "joined" =>
      /\ \A r \in Ingests :
           (Succeeded(r) /\ ingest[r].id = join[s].endpointId
            /\ ingest[r]._id >= join[s].emittedAt)
           => LiveCount(s, ingest[r]._id) = 1
      /\ \A i, j \in 1..Len(LiveIds(s)) :
           (i < j /\ LiveIds(s)[i] >= join[s].emittedAt
            /\ LiveIds(s)[j] >= join[s].emittedAt)
           => LiveIds(s)[i] < LiveIds(s)[j]

\* C5: the live events of a subscriber come in the order of the identifiers
\* the store handed out (insertedId), whatever the overlap of the ingests.
C5_LiveInSequenceOrder ==
  \A s \in Sockets :
    \A i, j \in 1..Len(LiveIds(s)) : i < j => LiveIds(s)[i] < LiveIds(s)[j]

\* C6: the key the store orders an endpoint's requests by (timestamp, the
\* sort key of the catch-up query) strictly increases in append order.
C6_OrderingKeyStrictlyIncreases ==
  \A i, j \in 1..Len(requestsCollection) :
    (i < j /\ requestsCollection[i].endpointId = requestsCollection[j].endpointId)
    => requestsCollection[i].timestamp < requestsCollection[j].timestamp

\* The documents of endpoint e in the order the store persisted them.
PersistedOf(e) == SelectSeq(requestsCollection, LAMBDA d : d.endpointId = e)

\* C7: the catch-up query of join(E) returns min(100, n) documents, all of E,
\* and they are the min(100, n) documents of E persisted last, n being the
\* number of documents of E in the store when the query is evaluated.
C7_SnapshotIsPersistedTail ==
  [][\A s \in Sockets :
       (join[s].pc = "reading" /\ join'[s].pc = "emitting") =>
         LET docs == PersistedOf(join[s].endpointId)
             n == Len(docs)
             m == Min(SnapshotLimit, n)
         IN /\ Len(join'[s].recentRequests) = m
            /\ Range(join'[s].recentRequests) = {docs[i] : i \in (n - m + 1)..n}]_vars

\* C8: an emitted snapshot is ordered oldest-to-newest: a record never comes
\* after one that arrived later (records that arrived in the same millisecond
\* may come in either order).
C8_SnapshotOldestFirst ==
  \A s \in Sockets :
    \A x \in 1..Len(received[s]) :
      received[s][x].type = "init_requests" =>
        LET reqs == received[s][x].reqs
        IN \A i, j \in 1..Len(reqs) : i < j => reqs[i].timestamp <= reqs[j].timestamp

\* No insert on endpoint e is between its call and its effect at the server.
NoInsertPending(e) ==
  \A r \in Ingests : ingest[r].id = e => ingest[r].pc # "inserting"

\* No ingest or join on endpoint e is between its existence check and its end.
Quiet(e) ==
  /\ \A r \in Ingests : ingest[r].id = e => ingest[r].pc = "done"
  /\ \A s \in Sockets : join[s].endpointId = e => join[s].pc \in {"joined", "failed"}

\* C9: when delete(E) completes while no other operation on E is in flight,
\* the store holds no request of E, and it never holds one again; every join(E)
\* after the delete emits 'Endpoint not found', emits nothing else and leaves
\* the rooms as they are.
C9_DeleteIsFinal ==
  [][\A d \in Deletes :
       LET e == del[d].endpointId
       IN /\ (del[d].pc = "purge" /\ del'[d].pc = "done" /\ Quiet(e))
               => (RequestsOf(e)' = {} /\ NoInsertPending(e)')
          /\ (del[d].pc = "done" /\ RequestsOf(e) = {} /\ NoInsertPending(e))
               => (RequestsOf(e)' = {} /\ NoInsertPending(e)')
          /\ del[d].pc = "done" =>
               \A s \in Sockets :
                 (join[s].pc = "idle" /\ join'[s].pc # "idle" /\ join'[s].endpointId = e)
                 => /\ join'[s].pc = "failed"
                    /\ received'[s] =
                         Append(received[s], Event("error", "Endpoint not found", <<>>))
                    /\ rooms' = rooms]_vars

\* A request was persisted on the endpoint, the delete has completed with
\* nothing else in flight, the store holds nothing of the endpoint, and a join
\* on it has been answered with the error.
C9_Witness ==
  \E d \in Deletes, r \in Ingests, s \in Sockets :
    /\ del[d].pc = "done" /\ Quiet(del[d].endpointId)
    /\ Succeeded(r) /\ ingest[r].id = del[d].endpointId
    /\ RequestsOf(del[d].endpointId) = {}
    /\ join[s].pc = "failed" /\ join[s].endpointId = del[d].endpointId
    /\ received[s] = <<Event("error", "Endpoint not found", <<>>)>>
    /\ s \notin rooms[del[d].endpointId]

\* C10: a notification that failed, in a lookup or in sendMail, belongs to an
\* ingest that answered with success, and the answer stays what it was.
C10_NotificationFailureIsolated ==
  \A r \in Ingests :
    notify[r].pc # "none" =>
      /\ ingest[r].pc = "done"
      /\ notify[r].error => ingest[r].status \in {200, 302}

\* sendMail was invoked for a request and failed; the request was answered 200.
C10_Witness ==
  \E r \in Ingests :
    /\ notify[r].pc = "done" /\ notify[r].error
    /\ \E i \in 1..Len(mailbox) : mailbox[i]._id = ingest[r]._id
    /\ ingest[r].status = 200

\* C11: the step that ends an ingest whose append succeeded answers with
\* success (200 or 302, never 500) and starts the notification of the request,
\* whether or not the broadcast succeeded.
C11_BroadcastFailureIsolated ==
  [][\A r \in Ingests :
       (ingest[r].pc = "inserted" /\ ingest'[r].pc = "done")
       => /\ ingest'[r].status \in {200, 302}
          /\ notify'[r].pc # "none"]_vars

\* The request of an ingest that answered 500 without its document being in
\* the store (the lookup or the insert failed).
FailedBeforeAppend(r) ==
  ingest[r].pc = "done" /\ ingest[r].status = 500 /\ ~Stored(r)

\* C12: the step in which the registry lookup or the insert of an ingest
\* fails answers 500, emits no event, starts no notification and stores
\* nothing; from then on the activation does not move, no new_request event
\* carries its request and no notification exists for it.
C12_StorageFailureIs500 ==
  [][\A r \in Ingests :
       /\ (ingest[r].pc \in {"idle", "inserting"} /\ ingest'[r].pc = "done"
           /\ ingest'[r].status # 404)
          => /\ ingest'[r].status = 500
             /\ received' = received
             /\ notify' = notify
             /\ requestsCollection' = requestsCollection
       /\ FailedBeforeAppend(r)
          => /\ ingest'[r] = ingest[r]
             /\ notify'[r].pc = "none"
             /\ ingest[r]._id # 0 =>
                  \A s \in Sockets : LiveCountIn(received', s, ingest[r]._id) = 0]_vars

\* A socket is in e1's room and was sent one request live; the insert of
\* another request on e1 failed and was answered 500.
C12_Witness ==
  \E s \in Sockets, r, q \in Ingests :
    /\ s \in rooms["e1"]
    /\ Succeeded(q) /\ LiveCount(s, ingest[q]._id) = 1
    /\ FailedBeforeAppend(r) /\ ingest[r]._id # 0 /\ ingest[r].id = "e1"
    /\ LiveCount(s, ingest[r]._id) = 0 /\ notify[r].pc = "none"

\* C13: an ingest whose append has succeeded eventually sends its response,
\* whatever becomes of its notification.
C13_ResponseDoesNotWait ==
  \A r \in Ingests : (ingest[r].pc = "inserted") ~> (ingest[r].pc = "done")

\* The response of an ingest has been sent while a lookup of its notification
\* is still pending.
C13_Witness ==
  \E r \in Ingests :
    /\ Succeeded(r)
    /\ notify[r].pc \in {"byNotificationEmail", "byUserId", "endpoint", "sending"}

\* The step in which preference handler w answers success, no other
\* preference handler of the same principal having been active during it.
CompletesAlone(w) ==
  /\ pref[w].pc # "done" /\ pref'[w].pc = "done"
  /\ pref'[w].status = 200 /\ pref'[w].alone

\* The principal's own identity keys.
KeysOf(p) == {Sub(p), Email(p)}

\* The addresses, other than the new one, that the principal's rows held when
\* the handler was called.
OldAddresses(a) ==
  {row.notificationEmail : row \in {x \in Range(a.before) : x.userId \in KeysOf(a.user)}}
    \ {a.email, Undefined}

\* C16, as claimed: when setEmail(new) completes, no row that held one of the
\* principal's old addresses before the call still holds it under a key other
\* than the principal's sub.
C16_NoStaleRowSurvives ==
  [][\A w \in Prefs :
       (CompletesAlone(w) /\ pref[w].op = "setEmail")
       => \A row \in Range(userSettings') :
            (row \in Range(pref[w].before) /\ row.userId # Sub(pref[w].user))
            => row.notificationEmail \notin OldAddresses(pref[w])]_vars

\* C16, amended: when setEmail(new) completes, no row under the principal's
\* own keys (sub or email) holds an address other than new; the rows under
\* every other key are the ones the table held under those keys before, in
\* the same order, unless their owners wrote them meanwhile.
C16_NoStaleRowOfPrincipal ==
  [][\A w \in Prefs :
       (CompletesAlone(w) /\ pref[w].op = "setEmail")
       => /\ \A row \in Range(userSettings') :
               row.userId \in KeysOf(pref[w].user) => row.notificationEmail = pref[w].email
          /\ (\A v \in Prefs \ {w} : pref[v].pc = "idle")
               => SelectSeq(userSettings', LAMBDA row : row.userId \notin KeysOf(pref[w].user))
                  = SelectSeq(pref[w].before,
                              LAMBDA row : row.userId \notin KeysOf(pref[w].user))]_vars

\* alice changed her address from the team address to her work address; her
\* rows hold the new one and bob's rows still hold the team address.
C16_Witness ==
  \E w \in Prefs :
    /\ pref[w].pc = "done" /\ pref[w].status = 200 /\ pref[w].alone
    /\ pref[w].op = "setEmail" /\ pref[w].user = "alice"
    /\ pref[w].email = "alice@work.com"
    /\ "team@example.com" \in OldAddresses(pref[w])
    /\ \E row \in Range(userSettings) :
         row.userId = Email("alice") /\ row.notificationEmail = "alice@work.com"
    /\ \E row \in Range(userSettings) :
         row.userId = Email("bob") /\ row.notificationEmail = "team@example.com"

\* C17: when enable, disable or setEmail completes, the table holds a row
\* under the principal's sub and a row under the principal's email, and both
\* carry what the operation wrote: the flag for enable and disable, the
\* address for enable and setEmail.
C17_BothKeysWritten ==
  [][\A w \in Prefs :
       CompletesAlone(w)
       => \A key \in KeysOf(pref[w].user) :
            \E row \in Range(userSettings') :
              /\ row.userId = key
              /\ pref[w].op = "enable"
                   => row.emailNotifications = On /\ row.notificationEmail = pref[w].email
              /\ pref[w].op = "disable" => row.emailNotifications = Off
              /\ pref[w].op = "setEmail" => row.notificationEmail = pref[w].email]_vars

\* bob, who had no row, disabled; alice, whose rows held the team address,
\* enabled with her work address: the four rows carry what was written.
C17_Witness ==
  \E w, v \in Prefs :
    /\ pref[w].pc = "done" /\ pref[w].status = 200 /\ pref[w].alone
    /\ pref[w].op = "disable" /\ pref[w].before = <<>>
    /\ pref[v].pc = "done" /\ pref[v].status = 200 /\ pref[v].alone
    /\ pref[v].op = "enable" /\ pref[v].user # pref[w].user
    /\ \A key \in KeysOf(pref[w].user) :
         \E row \in Range(userSettings) : row.userId = key /\ row.emailNotifications = Off
    /\ \A key \in KeysOf(pref[v].user) :
         \E row \in Range(userSettings) :
           row.userId = key /\ row.emailNotifications = On
           /\ row.notificationEmail = pref[v].email

\* C18: the settings table never holds two rows with the same userId.
C18_OneRowPerKey ==
  \A i, j \in 1..Len(userSettings) :
    i # j => userSettings[i].userId # userSettings[j].userId

\* The sendMail invocations for the request of ingest r.
MailsOf(r) == {i \in 1..Len(mailbox) : mailbox[i]._id = ingest[r]._id}

\* The row the lookups of sendWebhookNotification(creatorEmail, ..., null)
\* resolve to: by notificationEmail, else by userId.
ChainRow(creatorEmail) ==
  LET byAddress == FirstMatch(userSettings, "notificationEmail", creatorEmail)
  IN IF byAddress # NoSetting THEN byAddress
     ELSE FirstMatch(userSettings, "userId", creatorEmail)

\* C14: when the settings table holds one row, under the owner key K of the
\* endpoint, enabled and with address A, the route of a request is never
\* followed by more than one sendMail, every sendMail for it is addressed to A,
\* and a route that went through its lookups with a transporter configured has
\* invoked sendMail exactly once.
C14_OwnerSettingRoutesToAddress ==
  \A r \in Ingests, A \in {Email("alice"), "alice@work.com"} :
    (notify[r].pc # "none" /\ userSettings = <<Setting(ingest[r].createdBy, On, A)>>)
    => /\ Cardinality(MailsOf(r)) <= 1
       /\ \A i \in MailsOf(r) : mailbox[i].to = A
       /\ (transporter /\ (notify[r].pc = "sending"
                            \/ (notify[r].pc = "done" /\ ~notify[r].error)))
            => Cardinality(MailsOf(r)) = 1

\* The only row is under alice's email key, enabled, with her work address;
\* the route of a request on her endpoint has ended and its one mail went to
\* the work address.
C14_Witness ==
  \E r \in Ingests :
    /\ userSettings = <<Setting(Email("alice"), On, "alice@work.com")>>
    /\ ingest[r].createdBy = Email("alice")
    /\ notify[r].pc = "done" /\ ~notify[r].error
    /\ \E i \in MailsOf(r) : mailbox[i].to = "alice@work.com" /\ mailbox[i].to # ingest[r].createdBy

\* C15: when the lookups resolve to no row, or to a row whose
\* emailNotifications is false or absent, no sendMail is ever invoked for the
\* request, and the ingest has answered with success.
C15_NoSettingNoMail ==
  \A r \in Ingests :
    (notify[r].pc # "none" /\ ChainRow(ingest[r].createdBy).emailNotifications # On)
    => /\ MailsOf(r) = {}
       /\ Succeeded(r)
       /\ notify[r].pc \notin {"endpoint", "sending"}

\* With a transporter configured, a route resolved to a disabled row and
\* ended without error and without mail; the ingest was answered 200.
C15_Witness ==
  \E r \in Ingests :
    /\ transporter
    /\ ChainRow(ingest[r].createdBy) # NoSetting
    /\ ChainRow(ingest[r].createdBy).emailNotifications = Off
    /\ notify[r].pc = "done" /\ ~notify[r].error
    /\ MailsOf(r) = {} /\ ingest[r].status = 200

\* C19: the step of join(E) that finds no endpoint E appends the 'Endpoint
\* not found' error to the socket's events, emits nothing else (no snapshot)
\* and leaves the rooms as they are; after it the handler does nothing, the
\* socket is in no room and is sent no further event.
C19_JoinNotFound ==
  [][\A s \in Sockets :
       /\ (join[s].pc = "idle" /\ join'[s].pc # "idle"
           /\ ~endpointsCollection[join'[s].endpointId].present)
          => /\ join'[s].pc = "failed"
             /\ received' = [received EXCEPT
                               ![s] = Append(@, Event("error", "Endpoint not found", <<>>))]
             /\ rooms' = rooms
       /\ join[s].pc = "failed"
          => /\ join'[s] = join[s]
             /\ received'[s] = received[s]
             /\ \A e \in EndpointIds : s \notin rooms'[e]]_vars

\* join(e2) failed before e2 was created; a request was then ingested on e2
\* with success, and the socket has been sent the error and nothing else.
C19_Witness ==
  \E s \in Sockets, r \in Ingests :
    /\ join[s].pc = "failed" /\ join[s].endpointId = "e2"
    /\ Succeeded(r) /\ ingest[r].id = "e2"
    /\ received[s] = <<Event("error", "Endpoint not found", <<>>)>>

\* C20: a step sends a socket at most one new event, and when that event is a
\* new_request it carries the request of an ingest that this step completes
\* and in whose endpoint's room the socket is when the step is taken; so a
\* socket is never sent a request of an endpoint other than the one it joined.
C20_OnlyRoomMembersReceive ==
  [][\A s \in Sockets :
       /\ received'[s] # received[s]
          => /\ Len(received'[s]) = Len(received[s]) + 1
             /\ received'[s][Len(received'[s])].type = "new_request"
                  => \E r \in Ingests :
                       /\ ingest[r].pc = "inserted" /\ ingest'[r].pc = "done"
                       /\ received'[s][Len(received'[s])].reqs = <<Formatted(ingest[r])>>
                       /\ s \in rooms[ingest[r].id]
       /\ \A r \in Ingests :
            (ingest'[r]._id # 0 /\ LiveCountIn(received', s, ingest'[r]._id) > 0)
            => /\ join'[s].pc \in {"reading", "emitting", "joined"}
               /\ join'[s].endpointId = ingest'[r].id]_vars

\* The socket is in e2's room only; a request ingested on e2 was sent to it
\* live, and a request ingested on e1 with success was not sent to it.
C20_Witness ==
  \E s \in Sockets, r, q \in Ingests :
    /\ s \in rooms["e2"] /\ s \notin rooms["e1"]
    /\ Succeeded(r) /\ ingest[r].id = "e2" /\ LiveCount(s, ingest[r]._id) = 1
    /\ Succeeded(q) /\ ingest[q].id = "e1" /\ LiveCount(s, ingest[q]._id) = 0
    /\ SnapshotCount(s, ingest[q]._id) = 0

\* C21: no request has more than one sendMail invocation, every invocation
\* belongs to an ingest that answered with success, and so the invocations are
\* never more than the successful ingests; a notification that failed stays
\* ended.
C21_AtMostOneDeliver ==
  /\ \A r \in Ingests : Cardinality(MailsOf(r)) <= 1
  /\ \A i \in 1..Len(mailbox) :
       \E r \in Ingests : Succeeded(r) /\ mailbox[i]._id = ingest[r]._id
  /\ Len(mailbox) <= Cardinality({r \in Ingests : Succeeded(r)})
  /\ \A r \in Ingests : notify[r].error => notify[r].pc = "done"

\* Two ingests succeeded and sendMail was invoked once for each; one of the
\* two invocations failed and was not repeated.
C21_Witness ==
  /\ \A r \in Ingests : Succeeded(r) /\ notify[r].pc = "done" /\ Cardinality(MailsOf(r)) = 1
  /\ \E r \in Ingests : notify[r].error
  /\ Len(mailbox) = MaxIngests

\* C22: a delete(E) requested by a principal whose email is not E's createdBy
\* changes neither the endpoint record nor the requests stored for E (the
\* requests whose ingest found E with another createdBy).
C22_OnlyOwnerDeletes ==
  [][\A d \in Deletes :
       /\ (del[d].pc = "idle" /\ del'[d].pc # "idle"
           /\ Email(del'[d].user) # endpointsCollection[del'[d].endpointId].createdBy)
          => endpointsCollection' = endpointsCollection
       /\ (del[d].pc = "purge" /\ del'[d].pc # "purge"
           /\ \A r \in Ingests :
                ingest[r].id = del[d].endpointId => ingest[r].createdBy # Email(del[d].user))
          => requestsCollection' = requestsCollection]_vars

\* C24: when no ingest and no delete is in flight, every stored request
\* belongs to an endpoint of the registry.
C24_NoOrphanedRequests ==
  ((\A r \in Ingests : ingest[r].pc \in {"idle", "done"})
   /\ (\A d \in Deletes : del[d].pc \in {"idle", "done"}))
  => \A x \in Range(requestsCollection) : endpointsCollection[x.endpointId].present

\* C27: the events of a socket never show a new_request ahead of the
\* init_requests of its join.
C27_SnapshotBeforeLive ==
  \A s \in Sockets :
    \A i, j \in 1..Len(received[s]) :
      (received[s][i].type = "new_request" /\ received[s][j].type = "init_requests")
      => j < i

\* The row the claimed chain resolves to: the row keyed by the supplied
\* subject identifier, else a row whose address is the owner key, else the row
\* keyed by the owner key.
BySubject(n) ==
  IF n.googleUserId # Null THEN FirstMatch(userSettings, "userId", n.googleUserId)
  ELSE NoSetting

ByAddress(n) == FirstMatch(userSettings, "notificationEmail", n.creatorEmail)

ByOwnerKey(n) == FirstMatch(userSettings, "userId", n.creatorEmail)

FirstFound(n) ==
  IF BySubject(n) # NoSetting THEN BySubject(n)
  ELSE IF ByAddress(n) # NoSetting THEN ByAddress(n) ELSE ByOwnerKey(n)

\* C25: a lookup is pending only when every earlier step found no row; a
\* route that goes on to send has resolved to the first row found, which is
\* enabled, and addresses its notificationEmail; a route that ended without
\* going on to send has resolved to no row or to a first row that is not
\* enabled, whatever the rows of the later steps.
C25_FirstMatchWins ==
  \A r \in Ingests :
    LET n == notify[r]
        row == FirstFound(n)
    IN /\ n.pc = "byNotificationEmail" => BySubject(n) = NoSetting
       /\ n.pc = "byUserId" => BySubject(n) = NoSetting /\ ByAddress(n) = NoSetting
       /\ n.to # NoOwner
            => /\ row.emailNotifications = On
               /\ n.to = IF row.notificationEmail # Undefined
                         THEN row.notificationEmail ELSE n.creatorEmail
       /\ (n.pc = "done" /\ ~n.error /\ n.to = NoOwner) => row.emailNotifications # On

\* Called with alice's sub, the route found her disabled row and ended
\* without mail, although bob's row that names her email and the row under
\* her email are both enabled.
C25_Witness ==
  \E r \in Ingests :
    /\ notify[r].googleUserId = Sub("alice")
    /\ BySubject(notify[r]).emailNotifications = Off
    /\ ByAddress(notify[r]).emailNotifications = On
    /\ ByOwnerKey(notify[r]).emailNotifications = On
    /\ notify[r].pc = "done" /\ ~notify[r].error /\ notify[r].to = NoOwner
    /\ transporter /\ mailbox = <<>>

\* The rows of the settings table written by the principal whose email is
\* owner: the rows under the principal's sub and email.
OwnRows(owner) ==
  SelectSeq(userSettings,
            LAMBDA row : \E p \in Principals : Email(p) = owner /\ row.userId \in KeysOf(p))

\* The row the lookups by notificationEmail and by userId resolve to in the
\* table coll.
ChainRowIn(coll, creatorEmail) ==
  LET byAddress == FirstMatch(coll, "notificationEmail", creatorEmail)
  IN IF byAddress # NoSetting THEN byAddress
     ELSE FirstMatch(coll, "userId", creatorEmail)

\* C29: the route of a request decides and addresses as it would if the
\* settings table held the owner's rows only: it goes on to send exactly when
\* the row resolved among the owner's rows is enabled, and to that row's
\* address.
C29_RoutingDependsOnOwnerOnly ==
  \A r \in Ingests :
    LET n == notify[r]
        own == ChainRowIn(OwnRows(n.creatorEmail), n.creatorEmail)
    IN n.pc # "none"
       => /\ n.to # NoOwner
               => /\ own.emailNotifications = On
                  /\ n.to = IF own.notificationEmail # Undefined
                            THEN own.notificationEmail ELSE n.creatorEmail
          /\ (n.pc = "done" /\ ~n.error /\ n.to = NoOwner) => own.emailNotifications # On

\* C26: when setEmail completes for a principal whose status reported
\* enabled when the handler was called, the status reports enabled and the new
\* address.
C26_SetEmailKeepsEnabled ==
  [][\A w \in Prefs :
       (CompletesAlone(w) /\ pref[w].op = "setEmail"
        /\ Status(pref[w].before, pref[w].user).enabled)
       => /\ Status(userSettings', pref[w].user).enabled
          /\ Status(userSettings', pref[w].user).email = pref[w].email]_vars

\* The preference handlers of principal p that have run are enable and
\* disable handlers that answered success, and none is in flight.
OnlyFlagWritesDone(p) ==
  \A w \in Prefs :
    pref[w].user = p
    => pref[w].pc = "done" /\ pref[w].status = 200 /\ pref[w].op \in {"enable", "disable"}

\* C28: when no preference write of a principal is in flight, its row under
\* the sub and its row under the email hold the same emailNotifications.
C28_BothRowsSameFlag ==
  \A p \in Principals :
    (/\ OnlyFlagWritesDone(p)
     /\ FirstMatch(userSettings, "userId", Sub(p)) # NoSetting
     /\ FirstMatch(userSettings, "userId", Email(p)) # NoSetting)
    => FirstMatch(userSettings, "userId", Sub(p)).emailNotifications
       = FirstMatch(userSettings, "userId", Email(p)).emailNotifications

\* The disable handler w of principal p has answered success and no enable
\* of p has been called since: every other preference handler of p ended
\* before w was called.
DisabledSince(w, p) ==
  /\ pref[w].pc = "done" /\ pref[w].status = 200 /\ pref[w].alone
  /\ pref[w].op = "disable" /\ pref[w].user = p
  /\ \A v \in Prefs \ {w} : pref[v].user = p => (v = "w1" /\ w = "w2")

\* C23: while a principal's disable is the last preference write of that
\* principal, no sendMail is invoked for a request whose ingest started, on
\* an endpoint created by the principal, after the disable had answered.
C23_DisableStopsMail ==
  \A r \in Ingests, w \in Prefs, p \in Principals :
    (/\ DisabledSince(w, p)
     /\ ingest[r].createdBy = Email(p)
     /\ ingest[r]._id >= pref[w].doneAt)
    => MailsOf(r) = {}

=============================================================================
